---- MODULE Spec2Model ----
(***************************************************************************)
(* Windowed data-refresh pipeline of chart_for_data.                       *)
(*                                                                         *)
(* The repository holds four programs that share one pipeline:             *)
(*   "termui"  src/main.go 1-461      event loop with a plot widget        *)
(*   "ascii"   src/main.go 463-859    endless ASCII redraw loop            *)
(*   "loop"    src/README.md 107-871  background updateDataLoop + handlers *)
(*   "web"     src/web_chart_viewer.go  sampled store + dynamic queries    *)
(* A behaviour runs exactly one of them: Init chooses `variant`.           *)
(*                                                                         *)
(* A series is a Go slice over a backing array.  The array returned by one *)
(* upstream result set is identified by `id`; record i of array d is the   *)
(* pair (d, i).  A slice a[lo:hi] is the descriptor [id, lo, hi].          *)
(***************************************************************************)
EXTENDS Integers, Sequences, FiniteSets, TLC

\* ------------------------------------------------------------------ bounds
MaxId == 2          \* distinct upstream result sets (series that replace one another)
MaxExtra == 12      \* longest series of the terminal variants: WINDOW_SIZE + MaxExtra
LoopExtra == 1      \* longest series of the loop variant: LOOP_WINDOW_SIZE + LoopExtra
LoopHandlers == 1   \* request goroutines running beside updateDataLoop
NumHandlers == 2    \* request goroutines of web_chart_viewer.go
WebExtra == 50      \* longest series of web_chart_viewer.go: SAMPLE_SIZE + WebExtra

\* ------------------------------------------------------- program constants
WINDOW_SIZE == 200          \* main.go:18 and main.go:477
SCROLL_STEP == WINDOW_SIZE \div 4   \* main.go:373, main.go:384
TICK_STEP == 1              \* main.go:393
ASCII_STEP == 5             \* main.go:713
ASCII_SKIP_STEP == 1        \* main.go:688
LOOP_WINDOW_SIZE == 1000    \* README.md:127
LOOP_STEP == 50             \* README.md:369
MIN_POINTS == 2             \* main.go:296, main.go:687, README.md:348
SAMPLE_SIZE == 100          \* web_chart_viewer.go:71 and web_chart_viewer.go:1194
CHART_HEIGHT == 20          \* main.go:479
CHART_WIDTH == 100          \* main.go:480

VARIABLES
    variant,        \* which program this behaviour runs
    phase,          \* "boot" before main() has loaded data, "run", "exit"
    event,          \* last handled event / loop branch of the terminal variants
    fetched,        \* result of the last queryMarketData call
    boundary,       \* TRUE iff the last window computation took the start >= total branch
    allData,        \* the series held (createChart parameter / global allData)
    totalRecords,   \* len(allData) as cached by the cursor code
    windowStart,    \* cursor
    currentData,    \* last slice allData[windowStart:windowEnd]
    lineChart,      \* plot widget of the termui variant: data shown and title range
    windowEnd,      \* local windowEnd of the cursor code
    dataMutex,      \* sync.RWMutex of the loop variant
    loopPc,         \* position of the updateDataLoop goroutine
    req,            \* per request goroutine: position and locals
    webAllData,     \* web_chart_viewer.go: the full series
    webCurrentData, \* web_chart_viewer.go: the sampled view served to clients
    webDataMutex,   \* web_chart_viewer.go: sync.RWMutex
    fn,             \* the function or handler body applied to a drawn input, "none" before
    arg,            \* its argument(s)
    ret             \* what it returned / wrote

vars == <<variant, phase, event, fetched, boundary, allData, totalRecords,
          windowStart, currentData, lineChart, windowEnd, dataMutex, loopPc, req,
          webAllData, webCurrentData, webDataMutex, fn, arg, ret>>

callVars == <<fn, arg, ret>>

webVars == <<webAllData, webCurrentData, webDataMutex>>

cursorVars == <<allData, totalRecords, windowStart, windowEnd, currentData, boundary>>
serverVars == <<dataMutex, loopPc, req, webAllData, webCurrentData, webDataMutex>>

\* ------------------------------------------------------------ slices
Min(a, b) == IF a < b THEN a ELSE b

\* nil slice (var marketData []MarketData with nothing appended)
Empty == [id |-> 0, lo |-> 0, hi |-> 0]

\* the whole array of result set d holding n records
Series(d, n) == IF n = 0 THEN Empty ELSE [id |-> d, lo |-> 0, hi |-> n]

\* len(s)
SliceLen(s) == s.hi - s.lo

\* s[a:b] for a slice s that starts at offset 0 of its array
SliceOf(s, a, b) == [id |-> s.id, lo |-> a, hi |-> b]

\* ------------------------------------------------------------ upstream
\* lengths of the result sets the database may hold for the loop variant
LoopLens == {1, 2, LOOP_STEP + 1} \cup ((LOOP_WINDOW_SIZE + 1) .. (LOOP_WINDOW_SIZE + LoopExtra))

\* lengths of the result sets the database may hold for the terminal variants
TermLens == {1, 2} \cup ((WINDOW_SIZE - 1) .. (WINDOW_SIZE + MaxExtra))

\* number of rows of result set d of the database behind web_chart_viewer.go:
\* one that is served whole and longer ones that are sampled
WebLen(d) == IF d = 1 THEN SAMPLE_SIZE ELSE (d - 1) * SAMPLE_SIZE + WebExtra

\* parseTabSeparatedData never returns an error: a body decodes to a
\* (possibly empty) series
TermDecoded == {Empty} \cup {Series(d, n) : d \in 1..MaxId, n \in TermLens}
LoopDecoded == {Empty} \cup {Series(1, n) : n \in LoopLens}
WebDecoded == {Empty} \cup {Series(d, WebLen(d)) : d \in 1..MaxId}

\* queryMarketData: (nil, err) when executeQuery fails, else (records, nil)
QueryResults(decoded) ==
    {[err |-> TRUE, data |-> Empty]} \cup {[err |-> FALSE, data |-> s] : s \in decoded}

NoFetch == [err |-> FALSE, data |-> Empty]

\* ------------------------------------------------------------ window cursor
\* faulty WindowEnd: the end of the window is not clamped to the series length
WindowEndNoClamp(ws, w, total) == ws + w

\* windowEnd := windowStart + W; if windowEnd > totalRecords { windowEnd = totalRecords }
WindowEnd(ws, w, total) == Min(ws + w, total)

\* termui: window computation of updateChart with its clamp branch
ClampWindow(ws, total) ==
    IF ws >= total
    THEN [start |-> IF total - WINDOW_SIZE < 0 THEN 0 ELSE total - WINDOW_SIZE,
          end |-> total, boundary |-> TRUE]
    ELSE [start |-> ws, end |-> WindowEnd(ws, WINDOW_SIZE, total), boundary |-> FALSE]

\* faulty WrapWindow: the wrap test misses start = total
WrapWindowOffByOne(ws, w, total) ==
    IF ws > total
    THEN [start |-> 0, end |-> Min(w, total), boundary |-> TRUE]
    ELSE [start |-> ws, end |-> Min(ws + w, total), boundary |-> FALSE]

\* faulty WrapWindow: the wrap resets start but keeps the end computed before it
WrapWindowStaleEnd(ws, w, total) ==
    IF ws >= total
    THEN [start |-> 0, end |-> WindowEnd(ws, w, total), boundary |-> TRUE]
    ELSE [start |-> ws, end |-> WindowEnd(ws, w, total), boundary |-> FALSE]

\* ascii / loop: window computation with the wrap branch
WrapWindow(ws, w, total) ==
    IF ws >= total
    THEN [start |-> 0, end |-> WindowEnd(0, w, total), boundary |-> TRUE]
    ELSE [start |-> ws, end |-> WindowEnd(ws, w, total), boundary |-> FALSE]

NoChart == [data |-> Empty, from |-> 0, to |-> 0, of |-> 0]

\* what updateChart puts into the plot widget: nothing new for a window
\* of fewer than 2 points (early return)
ChartAfter(chart, cd, ws, we, total) ==
    IF SliceLen(cd) < MIN_POINTS
    THEN chart
    ELSE [data |-> cd, from |-> ws + 1, to |-> we, of |-> total]

\* faulty RefreshApply: the error of queryMarketData is ignored
RefreshApplyNoErrCheck(res, ad, total, ws) ==
    [applied |-> TRUE, allData |-> res.data, totalRecords |-> SliceLen(res.data),
     windowStart |-> 0]

\* faulty RefreshApply: the cursor is not reset
RefreshApplyKeepCursor(res, ad, total, ws) ==
    IF res.err
    THEN [applied |-> FALSE, allData |-> ad, totalRecords |-> total, windowStart |-> ws]
    ELSE [applied |-> TRUE, allData |-> res.data, totalRecords |-> SliceLen(res.data),
          windowStart |-> ws]

\* case "r": what the refresh command leaves in (allData, totalRecords, windowStart)
\* before it calls updateChart; applied is FALSE on the error branch
RefreshApply(res, ad, total, ws) ==
    IF res.err
    THEN [applied |-> FALSE, allData |-> ad, totalRecords |-> total, windowStart |-> ws]
    ELSE [applied |-> TRUE, allData |-> res.data, totalRecords |-> SliceLen(res.data),
          windowStart |-> 0]

\* startup checks shared by every main(): connection test, query, empty result
StartupOk(conn, res) == conn /\ ~res.err /\ SliceLen(res.data) # 0

\* ------------------------------------------------------------ sync.RWMutex
NoThread == -1
LoopThread == 0
Handlers == 1..LoopHandlers
WebHandlers == 1..NumHandlers

Unlocked == [w |-> NoThread, r |-> {}]
\* faulty CanLock: a writer is admitted while readers hold the lock
CanLockBesideReaders(m) == m.w = NoThread
CanLock(m) == m.w = NoThread /\ m.r = {}
\* faulty CanRLock: readers are admitted while a writer holds the lock
CanRLockDuringWrite(m) == TRUE
CanRLock(m) == m.w = NoThread
HoldsWrite(m, t) == m.w = t
HoldsRead(m, t) == t \in m.r

Idle == [pc |-> "idle", kind |-> "none", data |-> Empty]

\* ------------------------------------------------------------ sampled views
\* a view holding records 0, step, 2*step, ... (< n) of array id
EmptyView == [id |-> 0, n |-> 0, step |-> 1]

\* for i := 0; i < n; i += step { append(data[i]) } : the indices appended
SampleIndices(n, step) == {i \in 0..(n - 1) : i % step = 0}

\* len of a view
ViewLen(v) == Cardinality(SampleIndices(v.n, v.step))

\* the sampling block of main() and of webDataHandler
webSample(data) ==
    IF SliceLen(data) > SAMPLE_SIZE
    THEN [id |-> data.id, n |-> SliceLen(data), step |-> SliceLen(data) \div SAMPLE_SIZE]
    ELSE [id |-> data.id, n |-> SliceLen(data), step |-> 1]

\* faulty AfterQuery: the empty-result check is missing
AfterQueryNoEmptyCheck(res) == IF res.err THEN "error" ELSE "lock"

\* webDataHandler: where the dynamic branch continues after
\* webQueryMarketDataDynamic returned (error payload and return, or replace)
AfterQuery(res) ==
    IF res.err THEN "error"
    ELSE IF SliceLen(res.data) = 0 THEN "error"
    ELSE "lock"

\* ------------------------------------------------------------ initial state
Boot ==
    /\ phase = "boot"
    /\ event = "start"
    /\ fetched = NoFetch
    /\ boundary = FALSE
    /\ allData = Empty
    /\ totalRecords = 0
    /\ windowStart = 0
    /\ windowEnd = 0
    /\ currentData = Empty
    /\ lineChart = NoChart
    /\ dataMutex = Unlocked
    /\ loopPc = "off"
    /\ req = << >>
    /\ webAllData = Empty
    /\ webCurrentData = EmptyView
    /\ webDataMutex = Unlocked
    /\ fn = "none"
    /\ arg = << >>
    /\ ret = << >>

Init ==
    /\ variant \in {"termui", "ascii", "loop", "web"}
    /\ Boot

\* log.Fatal in main()
Fatal ==
    /\ phase' = "exit" /\ event' = "fatal"
    /\ UNCHANGED <<cursorVars, lineChart, serverVars>>

\* ------------------------------------------------------------ termui variant
\* updateChart closure of createChart, called with the cursor at ws
updateChart(ad, total, ws) ==
    LET win == ClampWindow(ws, total)
        cd == SliceOf(ad, win.start, win.end)
    IN /\ allData' = ad
       /\ totalRecords' = total
       /\ windowStart' = win.start
       /\ windowEnd' = win.end
       /\ boundary' = win.boundary
       /\ currentData' = cd
       /\ lineChart' = ChartAfter(lineChart, cd, win.start, win.end, total)

\* main() + createChart up to the first Render
TermMain ==
    /\ variant = "termui" /\ phase = "boot"
    /\ \E conn \in BOOLEAN, res \in QueryResults(TermDecoded) :
        /\ fetched' = res
        /\ IF StartupOk(conn, res)
           THEN /\ phase' = "run" /\ event' = "init"
                /\ updateChart(res.data, SliceLen(res.data), 0)
                /\ UNCHANGED serverVars
           ELSE Fatal
    /\ UNCHANGED <<callVars, variant>>

TermRunning == variant = "termui" /\ phase = "run"

\* faulty Tick: at the tail the cursor wraps to the first window
TickWrapsAtTail ==
    /\ TermRunning
    /\ event' = "tick"
    /\ IF windowStart + WINDOW_SIZE < totalRecords
       THEN updateChart(allData, totalRecords, windowStart + TICK_STEP)
       ELSE updateChart(allData, totalRecords, 0)
    /\ UNCHANGED <<callVars, variant, phase, fetched, serverVars>>

\* case <-ticker.C
Tick ==
    /\ TermRunning
    /\ event' = "tick"
    /\ IF windowStart + WINDOW_SIZE < totalRecords
       THEN updateChart(allData, totalRecords, windowStart + TICK_STEP)
       ELSE UNCHANGED <<cursorVars, lineChart>>
    /\ UNCHANGED <<callVars, variant, phase, fetched, serverVars>>

\* case "<Left>"
Left ==
    /\ TermRunning
    /\ event' = "left"
    /\ IF windowStart > 0
       THEN updateChart(allData, totalRecords,
                        IF windowStart - SCROLL_STEP < 0 THEN 0 ELSE windowStart - SCROLL_STEP)
       ELSE UNCHANGED <<cursorVars, lineChart>>
    /\ UNCHANGED <<callVars, variant, phase, fetched, serverVars>>

\* case "<Right>"
Right ==
    /\ TermRunning
    /\ event' = "right"
    /\ IF windowStart + WINDOW_SIZE < totalRecords
       THEN updateChart(allData, totalRecords, windowStart + SCROLL_STEP)
       ELSE UNCHANGED <<cursorVars, lineChart>>
    /\ UNCHANGED <<callVars, variant, phase, fetched, serverVars>>

\* case "r"
Refresh ==
    /\ TermRunning
    /\ event' = "r"
    /\ \E res \in QueryResults(TermDecoded) :
        /\ fetched' = res
        /\ LET a == RefreshApply(res, allData, totalRecords, windowStart)
           IN IF a.applied
              THEN updateChart(a.allData, a.totalRecords, a.windowStart)
              ELSE /\ allData' = a.allData
                   /\ totalRecords' = a.totalRecords
                   /\ windowStart' = a.windowStart
                   /\ UNCHANGED <<windowEnd, boundary, currentData, lineChart>>
    /\ UNCHANGED <<callVars, variant, phase, serverVars>>

\* case "<Resize>": relayout and redraw only
Resize ==
    /\ TermRunning
    /\ event' = "resize"
    /\ UNCHANGED <<callVars, variant, phase, fetched, cursorVars, lineChart, serverVars>>

\* case "q", "<C-c>"
Quit ==
    /\ TermRunning
    /\ event' = "q"
    /\ phase' = "exit"
    /\ UNCHANGED <<callVars, variant, fetched, cursorVars, lineChart, serverVars>>

\* ------------------------------------------------------------ ascii variant
\* main() of the ASCII program up to the call of createASCIIChart
AsciiMain ==
    /\ variant = "ascii" /\ phase = "boot"
    /\ \E conn \in BOOLEAN, res \in QueryResults(TermDecoded) :
        /\ fetched' = res
        /\ IF StartupOk(conn, res)
           THEN /\ phase' = "run" /\ event' = "init"
                /\ allData' = res.data
                /\ totalRecords' = SliceLen(res.data)
                /\ windowStart' = 0
                /\ UNCHANGED <<windowEnd, currentData, boundary, lineChart, serverVars>>
           ELSE Fatal
    /\ UNCHANGED <<callVars, variant>>

\* one iteration of the for loop of createASCIIChart
AsciiIterate ==
    /\ variant = "ascii" /\ phase = "run"
    /\ LET win == WrapWindow(windowStart, WINDOW_SIZE, totalRecords)
           cd == SliceOf(allData, win.start, win.end)
       IN /\ boundary' = win.boundary
          /\ windowEnd' = win.end
          /\ currentData' = cd
          /\ IF SliceLen(cd) < MIN_POINTS
             THEN /\ event' = "skip"
                  /\ windowStart' = win.start + ASCII_SKIP_STEP
             ELSE /\ event' = "render"
                  /\ windowStart' = win.start + ASCII_STEP
    /\ UNCHANGED <<callVars, variant, phase, fetched, allData, totalRecords, lineChart, serverVars>>

\* ------------------------------------------------------------ loop variant
\* main() of the background-loop program: go updateDataLoop(); startWebServer()
LoopMain ==
    /\ variant = "loop" /\ phase = "boot"
    /\ \E conn \in BOOLEAN, res \in QueryResults(LoopDecoded) :
        /\ fetched' = res
        /\ IF StartupOk(conn, res)
           THEN /\ phase' = "run" /\ event' = "serve"
                /\ allData' = res.data
                /\ windowStart' = 0
                /\ loopPc' = "len"
                /\ req' = [h \in Handlers |-> Idle]
                /\ UNCHANGED <<totalRecords, windowEnd, currentData, boundary,
                               lineChart, dataMutex, webVars>>
           ELSE Fatal
    /\ UNCHANGED <<callVars, variant>>

LoopRunning == variant = "loop" /\ phase = "run"

\* totalRecords := len(allData)
LoopLen ==
    /\ LoopRunning /\ loopPc = "len"
    /\ totalRecords' = SliceLen(allData)
    /\ loopPc' = "window"
    /\ UNCHANGED <<callVars, variant, phase, event, fetched, allData, windowStart, windowEnd,
                   currentData, boundary, lineChart, dataMutex, req, webVars>>

\* window computation at the top of the for loop
LoopWindow ==
    /\ LoopRunning /\ loopPc = "window"
    /\ LET win == WrapWindow(windowStart, LOOP_WINDOW_SIZE, totalRecords)
       IN /\ windowStart' = win.start
          /\ windowEnd' = win.end
          /\ boundary' = win.boundary
    /\ loopPc' = "lock"
    /\ UNCHANGED <<callVars, variant, phase, event, fetched, allData, totalRecords,
                   currentData, lineChart, dataMutex, req, webVars>>

\* dataMutex.Lock()
LoopLock ==
    /\ LoopRunning /\ loopPc = "lock"
    /\ CanLock(dataMutex)
    /\ dataMutex' = [dataMutex EXCEPT !.w = LoopThread]
    /\ loopPc' = "publish"
    /\ UNCHANGED <<callVars, variant, phase, event, fetched, cursorVars, lineChart, req, webVars>>

\* currentData = allData[windowStart:windowEnd]
LoopPublish ==
    /\ LoopRunning /\ loopPc = "publish"
    /\ currentData' = SliceOf(allData, windowStart, windowEnd)
    /\ loopPc' = "unlock"
    /\ UNCHANGED <<callVars, variant, phase, event, fetched, allData, totalRecords, windowStart,
                   windowEnd, boundary, lineChart, dataMutex, req, webVars>>

\* dataMutex.Unlock()
LoopUnlock ==
    /\ LoopRunning /\ loopPc = "unlock"
    /\ dataMutex' = [dataMutex EXCEPT !.w = NoThread]
    /\ loopPc' = "stats"
    /\ UNCHANGED <<callVars, variant, phase, event, fetched, cursorVars, lineChart, req, webVars>>

\* if len(currentData) >= 2 { print the statistics line }
LoopStats ==
    /\ LoopRunning /\ loopPc = "stats"
    /\ event' = IF SliceLen(currentData) >= MIN_POINTS THEN "stats" ELSE "skip"
    /\ loopPc' = "advance"
    /\ UNCHANGED <<callVars, variant, phase, fetched, cursorVars, lineChart, dataMutex, req, webVars>>

\* time.Sleep(UPDATE_INTERVAL); windowStart += 50
LoopAdvance ==
    /\ LoopRunning /\ loopPc = "advance"
    /\ windowStart' = windowStart + LOOP_STEP
    /\ loopPc' = "window"
    /\ UNCHANGED <<callVars, variant, phase, event, fetched, allData, totalRecords, windowEnd,
                   currentData, boundary, lineChart, dataMutex, req, webVars>>

\* window_info of dataHandler / title range of chartHandler
WindowInfo(ws, data) == [from |-> ws + 1, to |-> ws + SliceLen(data)]

\* the http server hands a request for /data or /chart to goroutine h
HandlerStart(h) ==
    /\ LoopRunning /\ req[h].pc = "idle"
    /\ \E k \in {"data", "chart"} : req' = [req EXCEPT ![h] = [pc |-> "rlock", kind |-> k, data |-> Empty]]
    /\ UNCHANGED <<callVars, variant, phase, event, fetched, cursorVars, lineChart, dataMutex, loopPc, webVars>>

\* dataMutex.RLock()
HandlerRLock(h) ==
    /\ LoopRunning /\ req[h].pc = "rlock"
    /\ CanRLock(dataMutex)
    /\ dataMutex' = [dataMutex EXCEPT !.r = @ \cup {h}]
    /\ req' = [req EXCEPT ![h].pc = "copy"]
    /\ UNCHANGED <<callVars, variant, phase, event, fetched, cursorVars, lineChart, loopPc, webVars>>

\* data := currentData
HandlerCopy(h) ==
    /\ LoopRunning /\ req[h].pc = "copy"
    /\ req' = [req EXCEPT ![h].pc = "runlock", ![h].data = currentData]
    /\ UNCHANGED <<callVars, variant, phase, event, fetched, cursorVars, lineChart, dataMutex, loopPc, webVars>>

\* dataMutex.RUnlock()
HandlerRUnlock(h) ==
    /\ LoopRunning /\ req[h].pc = "runlock"
    /\ dataMutex' = [dataMutex EXCEPT !.r = @ \ {h}]
    /\ req' = [req EXCEPT ![h].pc = "build"]
    /\ UNCHANGED <<callVars, variant, phase, event, fetched, cursorVars, lineChart, loopPc, webVars>>

\* the handler renders its response from data and the globals and returns
HandlerRespond(h) ==
    /\ LoopRunning /\ req[h].pc = "build"
    /\ req' = [req EXCEPT ![h] = Idle]
    /\ UNCHANGED <<callVars, variant, phase, event, fetched, cursorVars, lineChart, dataMutex, loopPc, webVars>>

\* ------------------------------------------------------------ web_chart_viewer.go
WebIdle == [pc |-> "idle", kind |-> "none", res |-> NoFetch, data |-> EmptyView, all |-> Empty]

\* main() of web_chart_viewer.go up to webStartWebServer()
WebMain ==
    /\ variant = "web" /\ phase = "boot"
    /\ \E conn \in BOOLEAN, res \in QueryResults(WebDecoded) :
        /\ fetched' = res
        /\ IF StartupOk(conn, res)
           THEN /\ phase' = "run" /\ event' = "serve"
                /\ webAllData' = res.data
                /\ webCurrentData' = webSample(res.data)
                /\ req' = [h \in WebHandlers |-> WebIdle]
                /\ UNCHANGED <<cursorVars, lineChart, dataMutex, loopPc, webDataMutex>>
           ELSE Fatal
    /\ UNCHANGED <<callVars, variant>>

WebRunning == variant = "web" /\ phase = "run"

\* the routes registered by webStartWebServer: /data with table and symbol
\* ("dyn"), /data with either of them missing ("data"), /chart, /, /tables, /symbols
WebRoutes == {"dyn", "data", "chart", "index", "tables", "symbols"}

\* where the handler of a route begins
WebEntry(k) ==
    IF k = "dyn" THEN "query"
    ELSE IF k \in {"data", "chart"} THEN "rlock"
    ELSE "other"

\* faulty WebStart: /data takes the dynamic branch without table and symbol too
WebStartAlwaysQueries(h) ==
    /\ WebRunning /\ req[h].pc = "idle"
    /\ \E k \in WebRoutes :
        req' = [req EXCEPT ![h] = [WebIdle EXCEPT !.kind = k,
                                                  !.pc = IF k = "data" THEN "query" ELSE WebEntry(k)]]
    /\ UNCHANGED <<callVars, variant, phase, event, fetched, cursorVars, lineChart, dataMutex,
                   loopPc, webVars>>

\* the http server hands a request to goroutine h
WebStart(h) ==
    /\ WebRunning /\ req[h].pc = "idle"
    /\ \E k \in WebRoutes :
        req' = [req EXCEPT ![h] = [WebIdle EXCEPT !.kind = k, !.pc = WebEntry(k)]]
    /\ UNCHANGED <<callVars, variant, phase, event, fetched, cursorVars, lineChart, dataMutex,
                   loopPc, webVars>>

\* webIndexHandler, webTablesHandler, webSymbolsHandler: the page or the list is
\* written from the template or from its own query; no global is read or written
WebServeOther(h) ==
    /\ WebRunning /\ req[h].pc = "other"
    /\ req' = [req EXCEPT ![h] = WebIdle]
    /\ UNCHANGED <<callVars, variant, phase, event, fetched, cursorVars, lineChart, dataMutex,
                   loopPc, webVars>>

\* data, err := webQueryMarketDataDynamic(table, symbol) and the two early returns
WebQuery(h) ==
    /\ WebRunning /\ req[h].pc = "query"
    /\ \E res \in QueryResults(WebDecoded) :
        req' = [req EXCEPT ![h].res = res, ![h].pc = AfterQuery(res)]
    /\ UNCHANGED <<callVars, variant, phase, event, fetched, cursorVars, lineChart, dataMutex,
                   loopPc, webVars>>

\* the error payload has been encoded; the handler returns
WebError(h) ==
    /\ WebRunning /\ req[h].pc = "error"
    /\ req' = [req EXCEPT ![h] = WebIdle]
    /\ UNCHANGED <<callVars, variant, phase, event, fetched, cursorVars, lineChart, dataMutex,
                   loopPc, webVars>>

\* webDataMutex.Lock()
WebLock(h) ==
    /\ WebRunning /\ req[h].pc = "lock"
    /\ CanLock(webDataMutex)
    /\ webDataMutex' = [webDataMutex EXCEPT !.w = h]
    /\ req' = [req EXCEPT ![h].pc = "setAll"]
    /\ UNCHANGED <<callVars, variant, phase, event, fetched, cursorVars, lineChart, dataMutex,
                   loopPc, webAllData, webCurrentData>>

\* webAllData = data
WebSetAll(h) ==
    /\ WebRunning /\ req[h].pc = "setAll"
    /\ webAllData' = req[h].res.data
    /\ req' = [req EXCEPT ![h].pc = "setCur"]
    /\ UNCHANGED <<callVars, variant, phase, event, fetched, cursorVars, lineChart, dataMutex,
                   loopPc, webCurrentData, webDataMutex>>

\* webCurrentData = sample of data
WebSetCur(h) ==
    /\ WebRunning /\ req[h].pc = "setCur"
    /\ webCurrentData' = webSample(req[h].res.data)
    /\ req' = [req EXCEPT ![h].pc = "unlock"]
    /\ UNCHANGED <<callVars, variant, phase, event, fetched, cursorVars, lineChart, dataMutex,
                   loopPc, webAllData, webDataMutex>>

\* webDataMutex.Unlock()
WebUnlock(h) ==
    /\ WebRunning /\ req[h].pc = "unlock"
    /\ webDataMutex' = [webDataMutex EXCEPT !.w = NoThread]
    /\ req' = [req EXCEPT ![h].pc = "log"]
    /\ UNCHANGED <<callVars, variant, phase, event, fetched, cursorVars, lineChart, dataMutex,
                   loopPc, webAllData, webCurrentData>>

\* fmt.Printf("Dynamic query: ...", len(data), len(webCurrentData))
WebLog(h) ==
    /\ WebRunning /\ req[h].pc = "log"
    /\ req' = [req EXCEPT ![h].pc = "rlock"]
    /\ UNCHANGED <<callVars, variant, phase, event, fetched, cursorVars, lineChart, dataMutex,
                   loopPc, webVars>>

\* webDataMutex.RLock()
WebRLock(h) ==
    /\ WebRunning /\ req[h].pc = "rlock"
    /\ CanRLock(webDataMutex)
    /\ webDataMutex' = [webDataMutex EXCEPT !.r = @ \cup {h}]
    /\ req' = [req EXCEPT ![h].pc = "copyCur"]
    /\ UNCHANGED <<callVars, variant, phase, event, fetched, cursorVars, lineChart, dataMutex,
                   loopPc, webAllData, webCurrentData>>

\* data := webCurrentData
WebCopyCur(h) ==
    /\ WebRunning /\ req[h].pc = "copyCur"
    /\ req' = [req EXCEPT ![h].data = webCurrentData,
                          ![h].pc = IF req[h].kind = "chart" THEN "runlock" ELSE "copyAll"]
    /\ UNCHANGED <<callVars, variant, phase, event, fetched, cursorVars, lineChart, dataMutex,
                   loopPc, webVars>>

\* allData := webAllData
WebCopyAll(h) ==
    /\ WebRunning /\ req[h].pc = "copyAll"
    /\ req' = [req EXCEPT ![h].all = webAllData, ![h].pc = "runlock"]
    /\ UNCHANGED <<callVars, variant, phase, event, fetched, cursorVars, lineChart, dataMutex,
                   loopPc, webVars>>

\* webDataMutex.RUnlock()
WebRUnlock(h) ==
    /\ WebRunning /\ req[h].pc = "runlock"
    /\ webDataMutex' = [webDataMutex EXCEPT !.r = @ \ {h}]
    /\ req' = [req EXCEPT ![h].pc = IF req[h].kind = "chart" THEN "title" ELSE "build"]
    /\ UNCHANGED <<callVars, variant, phase, event, fetched, cursorVars, lineChart, dataMutex,
                   loopPc, webAllData, webCurrentData>>

\* stats of the /data response
webDataStats(data, all) == [data_points |-> ViewLen(data), total_records |-> SliceLen(all)]

\* webDataHandler: the response is built from the copies and written
WebRespond(h) ==
    /\ WebRunning /\ req[h].pc = "build"
    /\ req' = [req EXCEPT ![h] = WebIdle]
    /\ UNCHANGED <<callVars, variant, phase, event, fetched, cursorVars, lineChart, dataMutex,
                   loopPc, webVars>>

\* webChartHandler: "Insufficient data", or the chart whose title reads len(webAllData)
WebChartTitle(h) ==
    /\ WebRunning /\ req[h].pc = "title"
    /\ req' = [req EXCEPT ![h] = WebIdle]
    /\ UNCHANGED <<callVars, variant, phase, event, fetched, cursorVars, lineChart, dataMutex,
                   loopPc, webVars>>

\* ------------------------------------------------------------ shared-state accesses
\* shared variables the updateDataLoop goroutine touches at each position
LoopTouches(pc) ==
    CASE pc = "len" -> {[var |-> "allData", op |-> "r"]}
      [] pc = "window" -> {[var |-> "windowStart", op |-> "r"], [var |-> "windowStart", op |-> "w"]}
      [] pc = "publish" -> {[var |-> "allData", op |-> "r"], [var |-> "windowStart", op |-> "r"],
                            [var |-> "currentData", op |-> "w"]}
      [] pc = "stats" -> {[var |-> "currentData", op |-> "r"]}
      [] pc = "advance" -> {[var |-> "windowStart", op |-> "r"], [var |-> "windowStart", op |-> "w"]}
      [] OTHER -> {}

\* shared variables dataHandler / chartHandler touch at each position
HandlerTouches(r) ==
    CASE r.pc = "copy" -> {[var |-> "currentData", op |-> "r"]}
      [] r.pc = "build" /\ r.kind = "data" /\ SliceLen(r.data) # 0 ->
            {[var |-> "windowStart", op |-> "r"], [var |-> "allData", op |-> "r"]}
      [] r.pc = "build" /\ r.kind = "chart" /\ SliceLen(r.data) >= MIN_POINTS ->
            {[var |-> "windowStart", op |-> "r"]}
      [] OTHER -> {}

\* shared variables webDataHandler / webChartHandler touch at each position
WebTouches(r) ==
    CASE r.pc = "setAll" -> {[var |-> "webAllData", op |-> "w"]}
      [] r.pc = "setCur" -> {[var |-> "webCurrentData", op |-> "w"]}
      [] r.pc = "log" -> {[var |-> "webCurrentData", op |-> "r"]}
      [] r.pc = "copyCur" -> {[var |-> "webCurrentData", op |-> "r"]}
      [] r.pc = "copyAll" -> {[var |-> "webAllData", op |-> "r"]}
      [] r.pc = "title" /\ ViewLen(r.data) >= MIN_POINTS -> {[var |-> "webAllData", op |-> "r"]}
      [] OTHER -> {}

\* ------------------------------------------------------------ float64 arithmetic
\* A float64 is NaN, +Inf, -Inf or a finite binary fraction n/d with a
\* significand of MantBits bits (the width is reduced, the rounding rule is
\* IEEE 754 round-to-nearest-even; exponent range unbounded, no negative zero).
MantBits == 4       \* significand bits of the floating-point format
MaxLen == 2         \* longest sequence handed to the normalizers, statistics and handlers
MaxRows == 2        \* most rows of a payload handed to the decoders

Abs(x) == IF x < 0 THEN -x ELSE x
Sgn(x) == IF x < 0 THEN -1 ELSE IF x > 0 THEN 1 ELSE 0

NaN == [k |-> "nan", n |-> 0, d |-> 1]
PosInf == [k |-> "inf", n |-> 1, d |-> 1]
NegInf == [k |-> "inf", n |-> -1, d |-> 1]

\* the finite value n/d (d > 0) in lowest terms
Fin(n, d) ==
    LET RECURSIVE Gcd(_, _)
        Gcd(a, b) == IF b = 0 THEN a ELSE Gcd(b, a % b)
        g == Gcd(Abs(n), d)
    IN [k |-> "fin", n |-> n \div g, d |-> d \div g]

Zero == Fin(0, 1)

\* the float nearest to the exact value n/d (d > 0), ties to the even significand
Round(n, d) ==
    LET RECURSIVE Pow2(_)
        Pow2(e) == IF e = 0 THEN 1 ELSE 2 * Pow2(e - 1)
        RECURSIVE Mag(_, _, _, _)
        Mag(a, b, up, down) ==
            IF a >= b * Pow2(MantBits) THEN Mag(a, 2 * b, 2 * up, down)
            ELSE IF a < b * Pow2(MantBits - 1) THEN Mag(2 * a, b, up, 2 * down)
            ELSE LET q == a \div b
                     r == a % b
                     m == IF 2 * r > b \/ (2 * r = b /\ q % 2 = 1) THEN q + 1 ELSE q
                 IN Fin(Sgn(n) * m * up, down)
    IN IF n = 0 THEN Zero ELSE Mag(Abs(n), d, 1, 1)

\* math.IsNaN(x), math.IsInf(x, 0)
IsNaN(x) == x.k = "nan"
IsInf(x) == x.k = "inf"
IsFinite(x) == x.k = "fin"

\* x + y
FAdd(x, y) ==
    IF IsNaN(x) \/ IsNaN(y) THEN NaN
    ELSE IF IsInf(x) THEN (IF IsInf(y) /\ y.n # x.n THEN NaN ELSE x)
    ELSE IF IsInf(y) THEN y
    ELSE Round(x.n * y.d + y.n * x.d, x.d * y.d)

\* x - y
FSub(x, y) == FAdd(x, IF IsNaN(y) THEN y ELSE [y EXCEPT !.n = -y.n])

\* x * y
FMul(x, y) ==
    IF IsNaN(x) \/ IsNaN(y) THEN NaN
    ELSE IF IsInf(x) \/ IsInf(y)
         THEN (IF x.n = 0 \/ y.n = 0 THEN NaN
               ELSE IF Sgn(x.n) * Sgn(y.n) > 0 THEN PosInf ELSE NegInf)
    ELSE Round(x.n * y.n, x.d * y.d)

\* x / y
FDiv(x, y) ==
    IF IsNaN(x) \/ IsNaN(y) THEN NaN
    ELSE IF IsInf(x)
         THEN (IF IsInf(y) THEN NaN
               ELSE IF Sgn(x.n) * (IF y.n < 0 THEN -1 ELSE 1) > 0 THEN PosInf ELSE NegInf)
    ELSE IF IsInf(y) THEN Zero
    ELSE IF y.n = 0
         THEN (IF x.n = 0 THEN NaN ELSE IF x.n > 0 THEN PosInf ELSE NegInf)
    ELSE Round(x.n * y.d * Sgn(y.n), x.d * Abs(y.n))

\* x < y
FLt(x, y) ==
    /\ ~IsNaN(x) /\ ~IsNaN(y)
    /\ IF IsInf(x) THEN x.n < 0 /\ y # x
       ELSE IF IsInf(y) THEN y.n > 0
       ELSE x.n * y.d < y.n * x.d

\* x == y
FEq(x, y) == ~IsNaN(x) /\ ~IsNaN(y) /\ x = y

\* ------------------------------------------------------------ statistics
\* faulty findMax: the scan starts from 0 instead of data[0]
findMaxFromZero(data) ==
    LET RECURSIVE Scan(_, _)
        Scan(i, max) ==
            IF i > Len(data) THEN max
            ELSE Scan(i + 1, IF FLt(max, data[i]) THEN data[i] ELSE max)
    IN Scan(1, Zero)

\* findMax of main.go (both programs) and of the loop variant
findMax(data) ==
    LET RECURSIVE Scan(_, _)
        Scan(i, max) ==
            IF i > Len(data) THEN max
            ELSE Scan(i + 1, IF FLt(max, data[i]) THEN data[i] ELSE max)
    IN IF Len(data) = 0 THEN Zero ELSE Scan(1, data[1])

\* findMin of main.go (both programs) and of the loop variant
findMin(data) ==
    LET RECURSIVE Scan(_, _)
        Scan(i, min) ==
            IF i > Len(data) THEN min
            ELSE Scan(i + 1, IF FLt(data[i], min) THEN data[i] ELSE min)
    IN IF Len(data) = 0 THEN Zero ELSE Scan(1, data[1])

\* calculateAverage of main.go (both programs) and of the loop variant
calculateAverage(data) ==
    LET RECURSIVE Scan(_, _)
        Scan(i, sum) == IF i > Len(data) THEN sum ELSE Scan(i + 1, FAdd(sum, data[i]))
    IN IF Len(data) = 0 THEN Zero ELSE FDiv(Scan(1, Zero), Fin(Len(data), 1))

\* webFindMax: non-finite values are skipped
webFindMax(data) ==
    LET RECURSIVE Scan(_, _, _)
        Scan(i, max, hasValidValue) ==
            IF i > Len(data) THEN [v |-> max, has |-> hasValidValue]
            ELSE IF IsFinite(data[i]) /\ (~hasValidValue \/ FLt(max, data[i]))
                 THEN Scan(i + 1, data[i], TRUE)
                 ELSE Scan(i + 1, max, hasValidValue)
        r == Scan(1, Zero, FALSE)
    IN IF Len(data) = 0 THEN Zero ELSE IF ~r.has THEN Zero ELSE r.v

\* webFindMin: non-finite values are skipped
webFindMin(data) ==
    LET RECURSIVE Scan(_, _, _)
        Scan(i, min, hasValidValue) ==
            IF i > Len(data) THEN [v |-> min, has |-> hasValidValue]
            ELSE IF IsFinite(data[i]) /\ (~hasValidValue \/ FLt(data[i], min))
                 THEN Scan(i + 1, data[i], TRUE)
                 ELSE Scan(i + 1, min, hasValidValue)
        r == Scan(1, Zero, FALSE)
    IN IF Len(data) = 0 THEN Zero ELSE IF ~r.has THEN Zero ELSE r.v

\* webCalculateAverage: non-finite values are skipped
webCalculateAverage(data) ==
    LET RECURSIVE Scan(_, _, _)
        Scan(i, sum, validCount) ==
            IF i > Len(data) THEN [sum |-> sum, n |-> validCount]
            ELSE IF IsFinite(data[i])
                 THEN Scan(i + 1, FAdd(sum, data[i]), validCount + 1)
                 ELSE Scan(i + 1, sum, validCount)
        r == Scan(1, Zero, 0)
    IN IF Len(data) = 0 THEN Zero
       ELSE IF r.n = 0 THEN Zero
       ELSE FDiv(r.sum, Fin(r.n, 1))

\* ------------------------------------------------------------ normalizer
\* faulty Rescale: targetMin is not added
RescaleNoOffset(source, sourceMin, sourceMax, targetMin, targetMax) ==
    [i \in 1..Len(source) |->
        FDiv(FMul(FSub(source[i], sourceMin), FSub(targetMax, targetMin)),
             FSub(sourceMax, sourceMin))]

\* the loop filling `normalized`:
\* targetMin + (val-sourceMin)*(targetMax-targetMin)/(sourceMax-sourceMin)
Rescale(source, sourceMin, sourceMax, targetMin, targetMax) ==
    [i \in 1..Len(source) |->
        FAdd(targetMin,
             FDiv(FMul(FSub(source[i], sourceMin), FSub(targetMax, targetMin)),
                  FSub(sourceMax, sourceMin)))]

\* faulty normalizeData: the sourceMax == sourceMin test is missing
normalizeDataNoConstantCheck(source, target) ==
    IF Len(source) = 0 \/ Len(target) = 0 THEN source
    ELSE Rescale(source, findMin(source), findMax(source), findMin(target), findMax(target))

\* normalizeData of main.go, normalizeToRange of the loop variant
normalizeData(source, target) ==
    IF Len(source) = 0 \/ Len(target) = 0 THEN source
    ELSE IF FEq(findMax(source), findMin(source)) THEN source
    ELSE Rescale(source, findMin(source), findMax(source), findMin(target), findMax(target))

\* webNormalizeToRange
webNormalizeToRange(source, target) ==
    IF Len(source) = 0 \/ Len(target) = 0 THEN source
    ELSE IF FEq(webFindMax(source), webFindMin(source)) THEN source
    ELSE Rescale(source, webFindMin(source), webFindMax(source),
                 webFindMin(target), webFindMax(target))

\* ------------------------------------------------------------ record decoder
\* A payload is the sequence of its rows (text between "\n"), a row the sequence
\* of its fields (text between "\t"); fields hold no white space at their ends.
NUM_FIELDS == 12            \* main.go:183

TimeLit == "2024-01-02 09:30:00"
TimeFracLit == "2024-01-02 09:30:00.5"
BigLit == "1000000000000000000000000000000000000000"

\* Go integer values: v, or the greatest value of `max` bits when max > 0
IntV(v) == [max |-> 0, v |-> v]
MaxOfBits(b) == [max |-> b, v |-> 0]

\* time.Parse("2006-01-02 15:04:05", s): a fractional second is accepted
ParseTime(s) ==
    IF s = TimeLit THEN [err |-> "nil", v |-> [at |-> TimeLit, frac |-> 0]]
    ELSE IF s = TimeFracLit THEN [err |-> "nil", v |-> [at |-> TimeLit, frac |-> 5]]
    ELSE [err |-> "parse", v |-> [at |-> "", frac |-> 0]]

\* parsedTime.Format("2006-01-02 15:04:05")
FormatTime(t) == t.at

\* strconv.ParseFloat(s, 32)
ParseFloat(s) ==
    IF s \in {"7", "007", "+7"} THEN [err |-> "nil", v |-> Fin(7, 1)]
    ELSE IF s = "-7" THEN [err |-> "nil", v |-> Fin(-7, 1)]
    ELSE IF s = "NaN" THEN [err |-> "nil", v |-> NaN]
    ELSE IF s = BigLit THEN [err |-> "range", v |-> PosInf]
    ELSE [err |-> "syntax", v |-> Zero]

\* strconv.ParseUint(s, 10, bitSize)
ParseUint(s, bitSize) ==
    IF s \in {"7", "007"} THEN [err |-> "nil", v |-> IntV(7)]
    ELSE IF s = BigLit THEN [err |-> "range", v |-> MaxOfBits(bitSize)]
    ELSE [err |-> "syntax", v |-> IntV(0)]

\* strconv.ParseInt(s, 10, bitSize)
ParseInt(s, bitSize) ==
    IF s \in {"7", "007", "+7"} THEN [err |-> "nil", v |-> IntV(7)]
    ELSE IF s = "-7" THEN [err |-> "nil", v |-> IntV(-7)]
    ELSE IF s = BigLit THEN [err |-> "range", v |-> MaxOfBits(bitSize - 1)]
    ELSE [err |-> "syntax", v |-> IntV(0)]

\* strings.Split(strings.TrimSpace(data), "\n") with each line split on "\t":
\* TrimSpace eats the tabs and newlines at both ends of the payload, that is the
\* empty fields (and the rows made of them) before the first and after the last
\* non-empty field
Lines(data) ==
    LET RECURSIVE TrimLeft(_)
        TrimLeft(rs) ==
            IF rs = << >> THEN rs
            ELSE IF Head(rs)[1] # "" THEN rs
            ELSE IF Len(Head(rs)) = 1 THEN TrimLeft(Tail(rs))
            ELSE TrimLeft(<<Tail(Head(rs))>> \o Tail(rs))
        RECURSIVE TrimRight(_)
        TrimRight(rs) ==
            IF rs = << >> THEN rs
            ELSE LET last == rs[Len(rs)]
                 IN IF last[Len(last)] # "" THEN rs
                    ELSE IF Len(last) = 1 THEN TrimRight(SubSeq(rs, 1, Len(rs) - 1))
                    ELSE TrimRight([rs EXCEPT ![Len(rs)] = SubSeq(last, 1, Len(last) - 1)])
        trimmed == TrimRight(TrimLeft(data))
    IN IF trimmed = << >> THEN << <<"">> >> ELSE trimmed

\* body of the decoding loop for one line: the record appended, if any
\* (web: webParseTabSeparatedData, which stores the time formatted back)
parseLine(fields, web) ==
    IF fields = <<"">> THEN [emit |-> FALSE, md |-> << >>]
    ELSE IF Len(fields) < NUM_FIELDS THEN [emit |-> FALSE, md |-> << >>]
    ELSE IF ParseTime(fields[2]).err # "nil" THEN [emit |-> FALSE, md |-> << >>]
    ELSE IF ParseFloat(fields[3]).err # "nil" THEN [emit |-> FALSE, md |-> << >>]
    ELSE IF ParseUint(fields[4], 32).err # "nil" THEN [emit |-> FALSE, md |-> << >>]
    ELSE IF ParseUint(fields[5], 32).err # "nil" THEN [emit |-> FALSE, md |-> << >>]
    ELSE [emit |-> TRUE,
          md |-> [Symbol |-> fields[1],
                  Time |-> IF web THEN [at |-> FormatTime(ParseTime(fields[2]).v), frac |-> 0]
                           ELSE ParseTime(fields[2]).v,
                  Price |-> ParseFloat(fields[3]).v,
                  Vol |-> ParseUint(fields[4], 32).v,
                  OpenInterest |-> ParseUint(fields[5], 32).v,
                  DiffVol |-> ParseInt(fields[6], 32).v,
                  DiffOI |-> ParseInt(fields[7], 32).v,
                  Bid1 |-> ParseFloat(fields[8]).v,
                  BidVolumn1 |-> ParseUint(fields[9], 32).v,
                  Ask1 |-> ParseFloat(fields[10]).v,
                  AskVolumn1 |-> ParseUint(fields[11], 32).v,
                  DateTime |-> ParseUint(fields[12], 64).v]]

\* the for loop over the lines
decodeLines(lines, web) ==
    LET RECURSIVE Loop(_, _)
        Loop(i, marketData) ==
            IF i > Len(lines) THEN marketData
            ELSE Loop(i + 1, IF parseLine(lines[i], web).emit
                             THEN Append(marketData, parseLine(lines[i], web).md)
                             ELSE marketData)
    IN Loop(1, << >>)

parseTabSeparatedData(data) == decodeLines(Lines(data), FALSE)
webParseTabSeparatedData(data) == decodeLines(Lines(data), TRUE)

\* ------------------------------------------------------------ /data responses
\* json.Marshal fails on a NaN or infinite float (UnsupportedValueError)
MarshalFails(response) ==
    \/ \E i \in 1..Len(response.data) :
          \/ ~IsFinite(response.data[i].Price)
          \/ ~IsFinite(response.data[i].Bid1)
          \/ ~IsFinite(response.data[i].Ask1)
    \/ ~IsFinite(response.stats.avg_price) \/ ~IsFinite(response.stats.max_price)
    \/ ~IsFinite(response.stats.min_price) \/ ~IsFinite(response.stats.avg_oi)

\* json.NewEncoder(w).Encode(response) with the error dropped: the document is
\* written only when it could be marshalled
Encode(response) ==
    IF MarshalFails(response) THEN [kind |-> "none", body |-> << >>]
    ELSE [kind |-> "json", body |-> response]

ErrorPayload(msg) == [kind |-> "error", body |-> [error |-> msg]]

\* float64(record.Price), float64(record.OpenInterest) of a window
priceValuesOf(data) == [i \in 1..Len(data) |-> data[i].Price]
oiValuesOf(data) == [i \in 1..Len(data) |-> Fin(data[i].OpenInterest.v, 1)]

\* dataHandler of the loop variant after it copied currentData into data
dataHandler(data) ==
    IF Len(data) = 0 THEN ErrorPayload("No data available")
    ELSE Encode([data |-> data,
                 stats |-> [avg_price |-> calculateAverage(priceValuesOf(data)),
                            max_price |-> findMax(priceValuesOf(data)),
                            min_price |-> findMin(priceValuesOf(data)),
                            avg_oi |-> calculateAverage(oiValuesOf(data)),
                            data_points |-> Len(data)]])

\* if math.IsInf(x, 0) || math.IsNaN(x) { x = 0 }
Clean(x) == IF IsInf(x) \/ IsNaN(x) THEN Zero ELSE x

\* strings.Contains(jsonStr, "Infinity") || strings.Contains(jsonStr, "NaN"):
\* the marshalled numbers are finite, so only a string of the document can match
ContainsNonFiniteText(response) ==
    \E i \in 1..Len(response.data) : response.data[i].Symbol \in {"NaN", "Infinity"}

\* webDataHandler after it copied webCurrentData into data
webDataHandler(data) ==
    IF Len(data) = 0 THEN ErrorPayload("No data available")
    ELSE LET stats == [avg_price |-> Clean(webCalculateAverage(priceValuesOf(data))),
                       max_price |-> Clean(webFindMax(priceValuesOf(data))),
                       min_price |-> Clean(webFindMin(priceValuesOf(data))),
                       avg_oi |-> Clean(webCalculateAverage(oiValuesOf(data))),
                       data_points |-> Len(data)]
             cleanData == [i \in 1..Len(data) |->
                              [data[i] EXCEPT !.Price = Clean(@), !.Bid1 = Clean(@),
                                              !.Ask1 = Clean(@)]]
             response == [data |-> cleanData, stats |-> stats]
         IN IF MarshalFails(response) THEN ErrorPayload("cannot serialize")
            ELSE IF ContainsNonFiniteText(response) THEN ErrorPayload("Infinity or NaN")
            ELSE [kind |-> "json", body |-> response]

\* ------------------------------------------------------------ ASCII chart
\* for i := 0; i < dataLen; i++ with dataLen = min(len(priceData), CHART_WIDTH)
DrawnIndices(n) == 0..(Min(n, CHART_WIDTH) - 1)

\* x := i * CHART_WIDTH / len(priceData); if x >= CHART_WIDTH { x = CHART_WIDTH - 1 }
Column(i, n) ==
    LET x == (i * CHART_WIDTH) \div n
    IN IF x >= CHART_WIDTH THEN CHART_WIDTH - 1 ELSE x

\* The grid drawChart prints, as a function of <<row, column>>.  The loop writes
\* for each i first the price mark '*' at row CHART_HEIGHT-1-priceData[i], then
\* the open-interest mark at row CHART_HEIGHT-1-oiData[i]: '@' if the cell holds
\* '*' at that moment, else '#'.  A cell shows the last write it received; write
\* <<i, k>> (k = 0 price, k = 1 open interest) is the (2*i + k)-th of the loop.
drawChart(priceData, oiData) ==
    LET n == Len(priceData)
        WritesTo(y, x) ==
            {w \in DrawnIndices(n) \X {0, 1} :
                /\ Column(w[1], n) = x
                /\ y = CHART_HEIGHT - 1
                          - (IF w[2] = 0 THEN priceData[w[1] + 1] ELSE oiData[w[1] + 1])}
        Last(ws) == CHOOSE w \in ws : \A v \in ws : 2 * v[1] + v[2] <= 2 * w[1] + w[2]
        Rune(ws) ==
            IF ws = {} THEN " "
            ELSE IF Last(ws)[2] = 0 THEN "*"
            ELSE IF ws \ {Last(ws)} # {} /\ Last(ws \ {Last(ws)})[2] = 0 THEN "@"
            ELSE "#"
    IN [c \in (0..(CHART_HEIGHT - 1)) \X (0..(CHART_WIDTH - 1)) |-> Rune(WritesTo(c[1], c[2]))]

\* ------------------------------------------------------------ inputs
SeqsUpTo(S, n) == UNION {[1..k -> S] : k \in 0..n}

\* values handed to the normalizers and to the statistics functions
NormVals == {Zero, Fin(1, 1), Fin(18, 1), NaN, PosInf}
StatVals == {Fin(-1, 1), Fin(1, 1), Fin(2, 1), Fin(3, 1), NaN, PosInf}

\* a row of the 12-column schema as the database prints it
GoodRow == <<"jm2509", TimeLit, "7", "7", "7", "-7", "7", "7", "7", "7", "7", "7">>

\* rows that differ from GoodRow in one field, in the field count, or are blank
Deviations ==
    {<<1, "">>, <<1, "NaN">>, <<2, "abc">>, <<2, TimeFracLit>>,
     <<3, "abc">>, <<3, BigLit>>, <<3, "NaN">>, <<4, "-7">>, <<4, BigLit>>,
     <<5, "abc">>, <<6, "abc">>, <<6, BigLit>>, <<7, "">>, <<7, "+7">>,
     <<8, BigLit>>, <<8, "NaN">>, <<9, "-7">>, <<10, "abc">>, <<11, BigLit>>,
     <<12, "">>, <<12, BigLit>>, <<12, "007">>}
Rows ==
    {GoodRow, GoodRow \o <<"x">>, SubSeq(GoodRow, 1, NUM_FIELDS - 1), <<"">>}
        \cup {[GoodRow EXCEPT ![d[1]] = d[2]] : d \in Deviations}
Payloads == SeqsUpTo(Rows, MaxRows)

\* window lengths createASCIIChart hands to drawChart: 2..WINDOW_SIZE, taken
\* around the chart width and at both ends
DrawLens ==
    {MIN_POINTS, MIN_POINTS + 1, CHART_WIDTH - 1, CHART_WIDTH, CHART_WIDTH + 1,
     WINDOW_SIZE - 1, WINDOW_SIZE}

\* rows as normalizeToRange(data, 0, CHART_HEIGHT-1) returns them: two lines that
\* cross, and two constant series (both at the middle row)
DrawInputs ==
    UNION {{[priceData |-> [i \in 1..n |-> (i - 1) % CHART_HEIGHT],
             oiData |-> [i \in 1..n |-> CHART_HEIGHT - 1 - ((i - 1) % CHART_HEIGHT)]],
            [priceData |-> [i \in 1..n |-> (CHART_HEIGHT - 1) \div 2],
             oiData |-> [i \in 1..n |-> (CHART_HEIGHT - 1) \div 2]]} : n \in DrawLens}

\* ------------------------------------------------------------ function calls
progVars == <<variant, phase, event, fetched, lineChart, cursorVars, serverVars>>

ValueInit == variant = "values" /\ Boot

Calling == variant = "values" /\ fn = "none"

CallNormalizeData ==
    /\ Calling
    /\ \E source \in SeqsUpTo(NormVals, MaxLen + 1), target \in SeqsUpTo(NormVals, MaxLen) :
        /\ fn' = "normalizeData"
        /\ arg' = [source |-> source, target |-> target]
        /\ ret' = normalizeData(source, target)
    /\ UNCHANGED progVars

CallWebNormalizeToRange ==
    /\ Calling
    /\ \E source \in SeqsUpTo(NormVals, MaxLen + 1), target \in SeqsUpTo(NormVals, MaxLen) :
        /\ fn' = "webNormalizeToRange"
        /\ arg' = [source |-> source, target |-> target]
        /\ ret' = webNormalizeToRange(source, target)
    /\ UNCHANGED progVars

\* the three statistics of one window column, as showStats / updateChart /
\* dataHandler compute them
CallStats ==
    /\ Calling
    /\ \E data \in SeqsUpTo(StatVals, MaxLen + 1) :
        /\ fn' = "stats"
        /\ arg' = data
        /\ ret' = [max |-> findMax(data), min |-> findMin(data), avg |-> calculateAverage(data)]
    /\ UNCHANGED progVars

CallWebStats ==
    /\ Calling
    /\ \E data \in SeqsUpTo(StatVals, MaxLen + 1) :
        /\ fn' = "webStats"
        /\ arg' = data
        /\ ret' = [max |-> webFindMax(data), min |-> webFindMin(data),
                   avg |-> webCalculateAverage(data)]
    /\ UNCHANGED progVars

CallParse ==
    /\ Calling
    /\ \E data \in Payloads :
        /\ fn' = "parseTabSeparatedData"
        /\ arg' = data
        /\ ret' = parseTabSeparatedData(data)
    /\ UNCHANGED progVars

CallWebParse ==
    /\ Calling
    /\ \E data \in Payloads :
        /\ fn' = "webParseTabSeparatedData"
        /\ arg' = data
        /\ ret' = webParseTabSeparatedData(data)
    /\ UNCHANGED progVars

\* /data of the loop variant for a window of decoded records
CallDataHandler ==
    /\ Calling
    /\ \E payload \in Payloads :
        /\ fn' = "dataHandler"
        /\ arg' = parseTabSeparatedData(payload)
        /\ ret' = dataHandler(parseTabSeparatedData(payload))
    /\ UNCHANGED progVars

\* /data of web_chart_viewer.go for a view of decoded records
CallWebDataHandler ==
    /\ Calling
    /\ \E payload \in Payloads :
        /\ fn' = "webDataHandler"
        /\ arg' = webParseTabSeparatedData(payload)
        /\ ret' = webDataHandler(webParseTabSeparatedData(payload))
    /\ UNCHANGED progVars

\* drawChart(normalizedPrice, normalizedOI, currentData) of the ASCII loop
CallDrawChart ==
    /\ Calling
    /\ \E in \in DrawInputs :
        /\ fn' = "drawChart"
        /\ arg' = in
        /\ ret' = drawChart(in.priceData, in.oiData)
    /\ UNCHANGED progVars

ValueNext ==
    \/ CallNormalizeData \/ CallWebNormalizeToRange
    \/ CallStats \/ CallWebStats
    \/ CallParse \/ CallWebParse
    \/ CallDataHandler \/ CallWebDataHandler
    \/ CallDrawChart

ValueSpec == ValueInit /\ [][ValueNext]_vars

\* ------------------------------------------------------------ properties
CursorVariant == variant \in {"termui", "ascii", "loop"}
WindowSizeOf(v) == IF v = "loop" THEN LOOP_WINDOW_SIZE ELSE WINDOW_SIZE
ReqOf(h) == req[h]
QueryFailed(res) == res.err \/ SliceLen(res.data) = 0

\* C1: in every cursor variant the indices of the last slice taken satisfy
\* 0 <= start <= end <= len(series) and end - start <= WINDOW_SIZE.
C1_SliceIndicesInRange ==
    (CursorVariant /\ phase = "run") =>
        /\ 0 <= currentData.lo
        /\ currentData.lo <= currentData.hi
        /\ currentData.hi <= SliceLen(allData)
        /\ currentData.hi - currentData.lo <= WindowSizeOf(variant)

\* a right scroll of the termui variant has produced a window cut short at the tail
C1_Witness ==
    /\ variant = "termui" /\ event = "right"
    /\ currentData.lo > 0
    /\ currentData.hi = SliceLen(allData)
    /\ currentData.hi - currentData.lo < WINDOW_SIZE

\* C2: the pair (webCurrentData, webAllData) a /data handler copied under the read
\* lock is the sample and the series of one and the same replace.
C2_SnapshotFromOneReplace ==
    variant = "web" =>
        \A h \in DOMAIN req :
            ReqOf(h).pc = "build" => ReqOf(h).data = webSample(ReqOf(h).all)

\* a handler holds its copies while another handler is in the middle of a replace
\* with a different series
C2_Witness ==
    /\ variant = "web"
    /\ \E h \in DOMAIN req, g \in DOMAIN req :
        /\ ReqOf(h).pc = "build" /\ ReqOf(g).pc = "setCur"
        /\ ReqOf(h).all # webAllData
        /\ ReqOf(h).all # fetched.data

\* C3: a termui refresh whose fetch fails leaves allData, totalRecords and
\* windowStart as they were.
C3_FailedRefreshKeepsStore ==
    [][(variant = "termui" /\ event' = "r" /\ fetched'.err)
        => UNCHANGED <<allData, totalRecords, windowStart>>]_vars

\* a failed refresh has been handled with the cursor away from the start
C3_Witness ==
    /\ variant = "termui" /\ event = "r" /\ fetched.err
    /\ windowStart > 0 /\ SliceLen(allData) > WINDOW_SIZE

\* C4: a termui refresh that decodes to zero records leaves allData, totalRecords
\* and windowStart as they were.
C4_EmptyRefreshKeepsStore ==
    [][(variant = "termui" /\ event' = "r" /\ ~fetched'.err /\ SliceLen(fetched'.data) = 0)
        => UNCHANGED <<allData, totalRecords, windowStart>>]_vars

\* C5: after a successful termui refresh with a non-empty result, allData is the
\* fetched series, totalRecords its length and windowStart 0.
C5_RefreshReplacesAndResets ==
    [][(variant = "termui" /\ event' = "r" /\ ~fetched'.err /\ SliceLen(fetched'.data) > 0)
        => /\ allData' = fetched'.data
           /\ totalRecords' = SliceLen(fetched'.data)
           /\ windowStart' = 0]_vars

\* a refresh has replaced a series by a longer one of another result set
C5_Witness ==
    /\ variant = "termui" /\ event = "r" /\ ~fetched.err
    /\ SliceLen(fetched.data) > WINDOW_SIZE
    /\ allData = fetched.data
    /\ lineChart.data = SliceOf(allData, 0, WINDOW_SIZE)

\* C6: a dynamic /data request whose query fails or decodes to zero records ends
\* in the error payload and changes neither webAllData nor webCurrentData.
C6_FailedQueryKeepsStore ==
    [][variant = "web" =>
        \A h \in DOMAIN req :
            /\ (ReqOf(h).pc = "query" /\ req'[h].pc # "query" /\ QueryFailed(req'[h].res))
                 => (req'[h].pc = "error" /\ UNCHANGED <<webAllData, webCurrentData>>)
            /\ (ReqOf(h).pc = "error" /\ req'[h] # ReqOf(h))
                 => (req'[h].pc = "idle" /\ UNCHANGED <<webAllData, webCurrentData>>)]_vars

\* a request whose result set is empty is about to answer with the error payload
\* while the store holds a series
C6_Witness ==
    /\ variant = "web"
    /\ \E h \in DOMAIN req :
        /\ ReqOf(h).pc = "error" /\ ~ReqOf(h).res.err
        /\ webAllData # Empty /\ webCurrentData = webSample(webAllData)

\* C7: while request handlers may run, every read and write of the shared
\* series/window state happens with the RWMutex held (write lock for writes, read
\* or write lock for reads).
C7_AllAccessesLocked ==
    /\ (variant = "loop" /\ phase = "run") =>
        /\ \A a \in LoopTouches(loopPc) : HoldsWrite(dataMutex, LoopThread)
        /\ \A h \in DOMAIN req : \A a \in HandlerTouches(ReqOf(h)) :
              IF a.op = "w" THEN HoldsWrite(dataMutex, h)
              ELSE HoldsRead(dataMutex, h) \/ HoldsWrite(dataMutex, h)
    /\ (variant = "web" /\ phase = "run") =>
        \A h \in DOMAIN req : \A a \in WebTouches(ReqOf(h)) :
              IF a.op = "w" THEN HoldsWrite(webDataMutex, h)
              ELSE HoldsRead(webDataMutex, h) \/ HoldsWrite(webDataMutex, h)

\* C8: the window position a loop-variant handler reports with its data is the
\* position of the window it returns.
C8_ReportedPositionMatchesData ==
    [][variant = "loop" =>
        \A h \in DOMAIN req :
            (ReqOf(h).pc = "build" /\ req'[h].pc = "idle" /\ HandlerTouches(ReqOf(h)) # {})
                => WindowInfo(windowStart, ReqOf(h).data)
                     = [from |-> ReqOf(h).data.lo + 1, to |-> ReqOf(h).data.hi]]_vars

\* the window computation that follows an advance of the cursor
AsciiComputes == variant = "ascii" /\ phase = "run" /\ windowStart' # windowStart
LoopComputes == variant = "loop" /\ loopPc = "window" /\ loopPc' = "lock"
TermAdvances == variant = "termui" /\ event' \in {"tick", "right"} /\ windowStart' # windowStart

\* C9 as stated: for L > W, once an advance has moved start beyond L - W the next
\* window starts at 0 (wrap variants) or at L - W (termui), with end = min(start + W, L).
C9_PolicyBeyondLMinusW ==
    [][/\ (AsciiComputes /\ totalRecords > WINDOW_SIZE
            /\ windowStart > totalRecords - WINDOW_SIZE)
          => (currentData'.lo = 0 /\ currentData'.hi = Min(WINDOW_SIZE, totalRecords))
       /\ (LoopComputes /\ totalRecords > LOOP_WINDOW_SIZE
            /\ windowStart > totalRecords - LOOP_WINDOW_SIZE)
          => (windowStart' = 0 /\ windowEnd' = Min(LOOP_WINDOW_SIZE, totalRecords))
       /\ (TermAdvances /\ totalRecords > WINDOW_SIZE
            /\ windowStart' > totalRecords - WINDOW_SIZE)
          => (currentData'.lo = totalRecords - WINDOW_SIZE /\ currentData'.hi = totalRecords)]_vars

\* C9 amended: for L > W the wrap variants wrap to [0, min(W, L)) only when the
\* advance has moved start to L or beyond, and compute the cut tail [start, L) while
\* L - W < start < L; the termui variant advances only while start + W < L and then
\* computes [start, min(start + W, L)) without clamping.
C9_PolicyAtLength ==
    [][/\ (AsciiComputes /\ totalRecords > WINDOW_SIZE)
          => /\ windowStart >= totalRecords
                  => (currentData'.lo = 0 /\ currentData'.hi = Min(WINDOW_SIZE, totalRecords))
             /\ (windowStart > totalRecords - WINDOW_SIZE /\ windowStart < totalRecords)
                  => (currentData'.lo = windowStart /\ currentData'.hi = totalRecords)
       /\ (LoopComputes /\ totalRecords > LOOP_WINDOW_SIZE)
          => /\ windowStart >= totalRecords
                  => (windowStart' = 0 /\ windowEnd' = Min(LOOP_WINDOW_SIZE, totalRecords))
             /\ (windowStart > totalRecords - LOOP_WINDOW_SIZE /\ windowStart < totalRecords)
                  => (windowStart' = windowStart /\ windowEnd' = totalRecords)
       /\ (TermAdvances /\ totalRecords > WINDOW_SIZE)
          => /\ windowStart + WINDOW_SIZE < totalRecords
             /\ windowStart' < totalRecords
             /\ currentData'.lo = windowStart'
             /\ currentData'.hi = Min(windowStart' + WINDOW_SIZE, totalRecords)
             /\ ~boundary']_vars

\* the ASCII loop has wrapped to the first window of a series longer than the window
C9_Witness ==
    /\ variant = "ascii" /\ boundary /\ event = "render"
    /\ totalRecords > WINDOW_SIZE
    /\ currentData = SliceOf(allData, 0, WINDOW_SIZE)

\* C10: for a series of at least 2 records no slice of fewer than 2 points is
\* taken, and none is published as currentData.
C10_NoDegenerateWindow ==
    (CursorVariant /\ phase = "run" /\ SliceLen(allData) >= 2 /\ currentData.id # 0)
        => SliceLen(currentData) >= MIN_POINTS

\* C11: in the wrap variants an iteration that begins with start >= length sets
\* start to 0 and end to min(WINDOW_SIZE, length) before the series is sliced, so
\* the slice taken (ASCII) or published (updateDataLoop) is the first window.
C11_WrapShowsFirstWindow ==
    [][/\ (AsciiComputes /\ windowStart >= totalRecords)
          => /\ boundary'
             /\ currentData' = SliceOf(allData, 0, Min(WINDOW_SIZE, SliceLen(allData)))
       /\ (LoopComputes /\ windowStart >= totalRecords)
          => /\ boundary'
             /\ windowStart' = 0
             /\ windowEnd' = Min(LOOP_WINDOW_SIZE, SliceLen(allData))
       /\ (variant = "loop" /\ loopPc = "publish" /\ loopPc' = "unlock" /\ boundary)
          => currentData' = SliceOf(allData, 0, Min(LOOP_WINDOW_SIZE, SliceLen(allData)))]_vars

\* updateDataLoop has passed the tail of a series longer than its window and has
\* published the first window again
C11_Witness ==
    /\ variant = "loop" /\ loopPc = "unlock" /\ boundary
    /\ SliceLen(allData) > LOOP_WINDOW_SIZE
    /\ currentData = SliceOf(allData, 0, LOOP_WINDOW_SIZE)

\* C12: in every cursor variant a window of fewer than 2 points renders no chart
\* and no statistics, and the next tick advances the cursor.
C12_ShortWindowSkipsAndAdvances ==
    [][/\ (AsciiComputes /\ SliceLen(currentData') < MIN_POINTS)
          => (event' = "skip" /\ windowStart' > currentData'.lo)
       /\ (variant = "loop" /\ loopPc = "stats" /\ loopPc' # loopPc
             /\ SliceLen(currentData) < MIN_POINTS)
          => (event' = "skip" /\ loopPc' = "advance")
       /\ (variant = "loop" /\ loopPc = "advance" /\ loopPc' # loopPc)
          => windowStart' > windowStart
       /\ (TermRunning /\ SliceLen(currentData) < MIN_POINTS /\ event' = "tick")
          => (lineChart' = lineChart /\ windowStart' > windowStart)]_vars

\* C13: a program that is running holds a non-empty series: a failed connection
\* test, a failed initial query or an empty initial result ends the process before
\* any window is computed, and no renderer ever observes an empty series store.
C13_NoEmptyStoreObserved ==
    phase = "run" =>
        IF variant = "web" THEN SliceLen(webAllData) > 0 ELSE SliceLen(allData) > 0

\* ------------------------------------------------------------ properties of the functions
Range(s) == {s[i] : i \in DOMAIN s}
AllFinite(s) == \A i \in DOMAIN s : IsFinite(s[i])
Constant(s) == Len(s) > 0 /\ \A i \in DOMAIN s : s[i] = s[1]
Least(s) == CHOOSE x \in Range(s) : \A y \in Range(s) : ~FLt(y, x)
Greatest(s) == CHOOSE x \in Range(s) : \A y \in Range(s) : ~FLt(x, y)
NormalizeCalled == fn \in {"normalizeData", "webNormalizeToRange"}
StatsCalled == fn \in {"stats", "webStats"}
ParseCalled == fn \in {"parseTabSeparatedData", "webParseTabSeparatedData"}
DataHandlerCalled == fn \in {"dataHandler", "webDataHandler"}

\* C14: every /data response body is valid JSON holding only finite numbers, or
\* an explicit JSON error object; a document with a NaN or an infinity in it is
\* never sent as is.
C14_DataBodyFiniteJsonOrError ==
    DataHandlerCalled =>
        \/ ret.kind = "error"
        \/ ret.kind = "json" /\ ~MarshalFails(ret.body)

\* a row has at least 12 fields and a parseable time, price, volume and open interest
RowAcceptable(row) ==
    /\ Len(row) >= NUM_FIELDS
    /\ ParseTime(row[2]).err = "nil"
    /\ ParseFloat(row[3]).err = "nil"
    /\ ParseUint(row[4], 32).err = "nil"
    /\ ParseUint(row[5], 32).err = "nil"

\* C15: the decoder's output is exactly the in-order subsequence of the rows of
\* the payload that have at least 12 fields and parseable required fields, one
\* record per such row.
C15_DecoderKeepsAcceptableRows ==
    ParseCalled =>
        LET rows == SelectSeq(arg, RowAcceptable)
            web == fn = "webParseTabSeparatedData"
        IN ret = [i \in 1..Len(rows) |-> parseLine(rows[i], web).md]

\* the value an optional field holds when a failed parse is stored as zero
OrZero(parsed, zero) == IF parsed.err = "nil" THEN parsed.v ELSE zero

\* an optional field of the row fails to parse
OptionalFails(row) ==
    \/ ParseInt(row[6], 32).err # "nil" \/ ParseInt(row[7], 32).err # "nil"
    \/ ParseFloat(row[8]).err # "nil" \/ ParseUint(row[9], 32).err # "nil"
    \/ ParseFloat(row[10]).err # "nil" \/ ParseUint(row[11], 32).err # "nil"
    \/ ParseUint(row[12], 64).err # "nil"

\* C16: a row that passes the required-field checks and has an optional field
\* that fails to parse (syntax error or value out of range) is still emitted, with
\* zero stored in every such field.
C16_OptionalFailureStoredAsZero ==
    ParseCalled =>
        \A i \in DOMAIN arg :
            (RowAcceptable(arg[i]) /\ OptionalFails(arg[i])) =>
                \E j \in DOMAIN ret :
                    /\ ret[j].Symbol = arg[i][1]
                    /\ ret[j].DiffVol = OrZero(ParseInt(arg[i][6], 32), IntV(0))
                    /\ ret[j].DiffOI = OrZero(ParseInt(arg[i][7], 32), IntV(0))
                    /\ ret[j].Bid1 = OrZero(ParseFloat(arg[i][8]), Zero)
                    /\ ret[j].BidVolumn1 = OrZero(ParseUint(arg[i][9], 32), IntV(0))
                    /\ ret[j].Ask1 = OrZero(ParseFloat(arg[i][10]), Zero)
                    /\ ret[j].AskVolumn1 = OrZero(ParseUint(arg[i][11], 32), IntV(0))
                    /\ ret[j].DateTime = OrZero(ParseUint(arg[i][12], 64), IntV(0))

\* the case C17 is about: finite values, a target that is not empty
FiniteCall ==
    NormalizeCalled /\ AllFinite(arg.source) /\ AllFinite(arg.target) /\ Len(arg.target) > 0

\* |x - t| <= 2^-MantBits * (|t| + 4 * (t - m)) for finite x, t, m, in exact
\* arithmetic: the rounding error of the four operations that lead from
\* min(target) = m and max(target) = t to the image of max(source)
WithinRounding(x, t, m) ==
    LET RECURSIVE Pow2(_)
        Pow2(e) == IF e = 0 THEN 1 ELSE 2 * Pow2(e - 1)
    IN Abs(x.n * t.d - t.n * x.d) * m.d * Pow2(MantBits)
          <= (Abs(t.n) * m.d + 4 * (t.n * m.d - m.n * t.d)) * x.d

\* C17 as stated: for finite values and a non-empty target the output has the
\* length of source, and for a non-constant source its minimum equals min(target)
\* and its maximum equals max(target).
C17_MinMaxEqualTarget ==
    FiniteCall =>
        /\ Len(ret) = Len(arg.source)
        /\ (Len(arg.source) > 0 /\ ~Constant(arg.source))
              => /\ Least(ret) = Least(arg.target)
                 /\ Greatest(ret) = Greatest(arg.target)

\* C17 amended: the minimum of the output equals min(target); the maximum equals
\* max(target) up to the rounding of the floating-point operations.
C17_MinMaxWithinRounding ==
    FiniteCall =>
        /\ Len(ret) = Len(arg.source)
        /\ (Len(arg.source) > 0 /\ ~Constant(arg.source))
              => /\ AllFinite(ret)
                 /\ Least(ret) = Least(arg.target)
                 /\ WithinRounding(Greatest(ret), Greatest(arg.target), Least(arg.target))

\* a non-constant source has been mapped and the image of its maximum was rounded
\* away from max(target)
C17_Witness ==
    /\ FiniteCall /\ Len(arg.source) > 0 /\ ~Constant(arg.source)
    /\ Least(ret) = Least(arg.target)
    /\ Greatest(ret) # Greatest(arg.target)

\* sourceMin and sourceMax as the called normalizer computes them
SourceBounds ==
    IF fn = "normalizeData"
    THEN [min |-> findMin(arg.source), max |-> findMax(arg.source)]
    ELSE [min |-> webFindMin(arg.source), max |-> webFindMax(arg.source)]

\* C18: normalize returns source unchanged when source is constant or empty or
\* target is empty, and the divisor sourceMax - sourceMin of the mapping it
\* otherwise computes is never zero.
C18_NoOpWhenDegenerate ==
    NormalizeCalled =>
        /\ (Len(arg.source) = 0 \/ Len(arg.target) = 0 \/ Constant(arg.source))
              => ret = arg.source
        /\ (Len(arg.source) > 0 /\ Len(arg.target) > 0
              /\ ~FEq(SourceBounds.max, SourceBounds.min))
              => ~FEq(FSub(SourceBounds.max, SourceBounds.min), Zero)

\* a constant source of several values has been normalized against a target that
\* spans a range
C18_Witness ==
    /\ fn = "webNormalizeToRange"
    /\ Len(arg.source) >= 2 /\ Constant(arg.source) /\ AllFinite(arg.source)
    /\ AllFinite(arg.target) /\ Len(arg.target) > 0 /\ ~Constant(arg.target)
    /\ ret = arg.source

\* C19: with non-finite values in source or target the output is finite at every
\* position, and zero at every position whose input value is non-finite.
C19_NonFiniteBecomesZero ==
    (NormalizeCalled /\ Len(arg.source) > 0 /\ Len(arg.target) > 0) =>
        \A i \in DOMAIN ret :
            /\ IsFinite(ret[i])
            /\ ~IsFinite(arg.source[i]) => ret[i] = Zero

\* the exact mean of finite values, rounded once
RoundedMean(data) ==
    LET RECURSIVE Sum(_)
        Sum(i) == IF i = 0 THEN [n |-> 0, d |-> 1]
                  ELSE [n |-> Sum(i - 1).n * data[i].d + data[i].n * Sum(i - 1).d,
                        d |-> Sum(i - 1).d * data[i].d]
    IN Round(Sum(Len(data)).n, Sum(Len(data)).d * Len(data))

\* C20: for a non-empty sequence of finite values the maximum function returns
\* the greatest element, the minimum function the least and the average function
\* sum/length; for the empty sequence all three return 0.
C20_StatsOfFiniteSequence ==
    (StatsCalled /\ AllFinite(arg)) =>
        IF Len(arg) = 0
        THEN ret = [max |-> Zero, min |-> Zero, avg |-> Zero]
        ELSE /\ ret.max = Greatest(arg)
             /\ ret.min = Least(arg)
             /\ ret.avg = RoundedMean(arg)

\* the statistics of [1, 2, 3] have been computed: avg 2, max 3, min 1
C20_Witness ==
    /\ fn = "stats"
    /\ arg = <<Fin(1, 1), Fin(2, 1), Fin(3, 1)>>
    /\ ret = [max |-> Fin(3, 1), min |-> Fin(1, 1), avg |-> Fin(2, 1)]

\* the finite elements of a sequence, in order
FiniteOnly(data) == SelectSeq(data, IsFinite)

\* C21: the statistics functions ignore non-finite inputs: the result is the
\* statistic of the finite elements only, 0 when no element is finite, and so
\* never NaN or infinite.
C21_StatsIgnoreNonFinite ==
    StatsCalled =>
        IF Len(FiniteOnly(arg)) = 0
        THEN ret = [max |-> Zero, min |-> Zero, avg |-> Zero]
        ELSE /\ ret.max = Greatest(FiniteOnly(arg))
             /\ ret.min = Least(FiniteOnly(arg))
             /\ ret.avg = RoundedMean(FiniteOnly(arg))

\* the number of records the usage text says are queried after connecting
LATEST_LIMIT == 100         \* README.md:47

\* the last min(N, limit) rows of a table of N rows, in ascending time order
LatestRows(table, limit) ==
    SliceOf(table, SliceLen(table) - Min(SliceLen(table), limit), SliceLen(table))

\* C22: the series the terminal program holds at startup is the last
\* min(N, 100) rows of the N rows the table holds for the symbol.
C22_StartupLoadsLatest100 ==
    (variant = "termui" /\ phase = "run" /\ event = "init") =>
        allData = LatestRows(fetched.data, LATEST_LIMIT)

\* C23: in the termui variant a timer tick advances start by exactly 1 while
\* start + WINDOW_SIZE < length, and otherwise leaves start, the series, the
\* window and the widget unchanged: the view is held at the tail, never wrapped.
C23_TickAdvancesOrHolds ==
    [][(TermRunning /\ event' = "tick") =>
          IF windowStart + WINDOW_SIZE < totalRecords
          THEN /\ windowStart' = windowStart + 1
               /\ allData' = allData /\ totalRecords' = totalRecords
          ELSE /\ windowStart' = windowStart
               /\ allData' = allData /\ totalRecords' = totalRecords
               /\ currentData' = currentData /\ lineChart' = lineChart]_vars

\* a tick has been handled with the view at the tail of a series longer than the
\* window: the cursor stayed at length - WINDOW_SIZE
C23_Witness ==
    /\ TermRunning /\ event = "tick"
    /\ windowStart > 0 /\ windowStart + WINDOW_SIZE = totalRecords
    /\ lineChart.to = totalRecords

\* C24: the data and stats a successful dynamic query is about to return are the
\* sampled records and counts of the dataset that same request fetched.
C24_DynamicResponseIsOwnDataset ==
    WebRunning =>
        \A h \in WebHandlers :
            (req[h].pc = "build" /\ req[h].kind = "dyn") =>
                /\ req[h].data = webSample(req[h].res.data)
                /\ webDataStats(req[h].data, req[h].all)
                      = webDataStats(webSample(req[h].res.data), req[h].res.data)

\* C25: after the initial load and after every successful dynamic query the
\* sampled view webCurrentData holds at most sampleSize (100) records.
C25_SampleAtMostSampleSize ==
    WebRunning => ViewLen(webCurrentData) <= SAMPLE_SIZE

\* C26: in the ASCII variant the loop renders a chart infinitely often: from any
\* cursor position of a running program a rendering iteration eventually follows.
C26_AsciiRendersInfinitelyOften ==
    []((variant = "ascii" /\ phase = "run") => <>(event = "render"))

\* C27: in the termui variant, after the initial draw and after every tick,
\* scroll and refresh, the series held by the chart widget is
\* allData[windowStart:windowEnd] of the series currently held.
C27_WidgetShowsCurrentWindow ==
    (TermRunning /\ event \in {"init", "tick", "left", "right", "r"}) =>
        lineChart.data = SliceOf(allData, windowStart, windowEnd)

\* positions of a web_chart_viewer.go request between Lock and Unlock, and
\* between RLock and RUnlock
WebWriteSection == {"setAll", "setCur", "unlock"}
WebReadSection == {"copyCur", "copyAll", "runlock"}

\* the lock discipline of both web variants: a goroutine holds a lock exactly
\* while it is between the acquisition and the matching release (so no fetch is
\* made with it), and a writer excludes the other writers and all readers
LockDiscipline ==
    /\ LoopRunning =>
          /\ HoldsWrite(dataMutex, LoopThread) <=> loopPc \in {"publish", "unlock"}
          /\ \A h \in Handlers :
                HoldsRead(dataMutex, h) <=> req[h].pc \in {"copy", "runlock"}
          /\ dataMutex.w # NoThread => dataMutex.r = {}
    /\ WebRunning =>
          /\ \A h \in WebHandlers :
                /\ HoldsWrite(webDataMutex, h) <=> req[h].pc \in WebWriteSection
                /\ HoldsRead(webDataMutex, h) <=> req[h].pc \in WebReadSection
          /\ webDataMutex.w # NoThread => webDataMutex.r = {}
          /\ Cardinality({h \in WebHandlers : req[h].pc \in WebWriteSection}) <= 1

\* a goroutine inside a critical section can always take its next step, up to
\* and including the release: nothing between Lock and Unlock can block
HolderCanProceed ==
    /\ LoopRunning =>
          /\ loopPc = "publish" => ENABLED LoopPublish
          /\ loopPc = "unlock" => ENABLED LoopUnlock
          /\ \A h \in Handlers :
                /\ req[h].pc = "copy" => ENABLED HandlerCopy(h)
                /\ req[h].pc = "runlock" => ENABLED HandlerRUnlock(h)
    /\ WebRunning =>
          \A h \in WebHandlers :
              /\ req[h].pc = "setAll" => ENABLED WebSetAll(h)
              /\ req[h].pc = "setCur" => ENABLED WebSetCur(h)
              /\ req[h].pc = "unlock" => ENABLED WebUnlock(h)
              /\ req[h].pc = "copyCur" => ENABLED WebCopyCur(h)
              /\ req[h].pc = "copyAll" => ENABLED WebCopyAll(h)
              /\ req[h].pc = "runlock" => ENABLED WebRUnlock(h)

\* a goroutine that asks for the lock gets it as soon as no conflicting holder
\* is left: a writer when the mutex is free, a reader when no writer holds it
\* (other readers do not keep it out)
FreeLockIsGranted ==
    /\ LoopRunning =>
          /\ (loopPc = "lock" /\ dataMutex = Unlocked) => ENABLED LoopLock
          /\ \A h \in Handlers :
                (req[h].pc = "rlock" /\ dataMutex.w = NoThread) => ENABLED HandlerRLock(h)
    /\ WebRunning =>
          \A h \in WebHandlers :
              /\ (req[h].pc = "lock" /\ webDataMutex = Unlocked) => ENABLED WebLock(h)
              /\ (req[h].pc = "rlock" /\ webDataMutex.w = NoThread) => ENABLED WebRLock(h)

WebSteps(h) == req'[h] # req[h]

\* C29: in web_chart_viewer.go only a /data request with table and symbol
\* changes the store or fetches market data: requests to /, /chart, /tables,
\* /symbols and /data without both parameters leave webAllData and
\* webCurrentData unchanged, and /data then serves the sample held.
C29_OnlyDynamicDataChangesStore ==
    [][WebRunning =>
          /\ (webAllData' # webAllData \/ webCurrentData' # webCurrentData) =>
                \E h \in WebHandlers : WebSteps(h) /\ req[h].kind = "dyn"
          /\ \A h \in WebHandlers :
                /\ (WebSteps(h) /\ req'[h].kind \notin {"dyn", "none"}) =>
                      /\ webAllData' = webAllData /\ webCurrentData' = webCurrentData
                      /\ req'[h].res = NoFetch /\ req'[h].pc # "query"
                /\ (WebSteps(h) /\ req[h].kind = "data" /\ req[h].pc = "copyCur") =>
                      req'[h].data = webCurrentData
                /\ (WebSteps(h) /\ req[h].kind = "data" /\ req[h].pc = "build") =>
                      req[h].data.id # 0]_vars

\* a /data request without parameters is about to answer with the sample held,
\* after a dynamic query replaced the store, while a /tables request is served
C29_Witness ==
    /\ WebRunning /\ webAllData # fetched.data
    /\ \E h, g \in WebHandlers :
          /\ req[h].kind = "data" /\ req[h].pc = "build" /\ req[h].data = webCurrentData
          /\ req[g].kind = "tables" /\ req[g].pc = "other"

\* C30: drawChart plots the whole window: every record index i of a window of
\* n points (2 <= n <= WINDOW_SIZE) is drawn at column i*CHART_WIDTH/n, which
\* lies within 0..CHART_WIDTH-1, in the row of its price.
C30_EveryRecordDrawnAtItsColumn ==
    fn = "drawChart" =>
        LET n == Len(arg.priceData)
        IN \A i \in 0..(n - 1) :
              /\ (i * CHART_WIDTH) \div n \in 0..(CHART_WIDTH - 1)
              /\ ret[<<CHART_HEIGHT - 1 - arg.priceData[i + 1], (i * CHART_WIDTH) \div n>>] # " "

\* ------------------------------------------------------------ specification
Next ==
    \/ TermMain \/ Tick \/ Left \/ Right \/ Refresh \/ Resize \/ Quit
    \/ AsciiMain \/ AsciiIterate
    \/ LoopMain \/ LoopLen \/ LoopWindow \/ LoopLock \/ LoopPublish \/ LoopUnlock
    \/ LoopStats \/ LoopAdvance
    \/ \E h \in Handlers :
        \/ HandlerStart(h) \/ HandlerRLock(h) \/ HandlerCopy(h)
        \/ HandlerRUnlock(h) \/ HandlerRespond(h)
    \/ WebMain
    \/ \E h \in WebHandlers :
        \/ WebStart(h) \/ WebQuery(h) \/ WebError(h) \/ WebLock(h) \/ WebSetAll(h)
        \/ WebSetCur(h) \/ WebUnlock(h) \/ WebLog(h) \/ WebRLock(h) \/ WebCopyCur(h)
        \/ WebCopyAll(h) \/ WebRUnlock(h) \/ WebRespond(h) \/ WebChartTitle(h)
        \/ WebServeOther(h)

Spec == Init /\ [][Next]_vars

\* The ASCII program alone.  Its for loop has no exit and blocks only in
\* time.Sleep, so an iteration that is possible is eventually taken.
AsciiInit == variant = "ascii" /\ Boot
AsciiNext == AsciiMain \/ AsciiIterate
AsciiSpec == AsciiInit /\ [][AsciiNext]_vars /\ WF_vars(AsciiIterate)

====
